---- MODULE Spec2Model ----
(***************************************************************************)
(* Model of webapp.py, the Engesud Smart "Dashboard 2030" page: the field  *)
(* extraction helpers (extrair_valor, extrair_status), the aggregation     *)
(* (calcular_metricas), the table of main(), and the page-load / cache /   *)
(* refresh cycle around the two fetch functions.                           *)
(*                                                                         *)
(* JSON values of the Notion payloads are tagged records:                  *)
(*   None -> [t |-> "null"]        number -> [t |-> "num", n |-> 3]        *)
(*   str  -> [t |-> "str", s |-> ..]  dict -> [t |-> "obj", o |-> key:>val]*)
(*   list -> [t |-> "arr", a |-> << .. >>]                                 *)
(* A Python call that may raise yields [ok |-> FALSE, ..] instead of a     *)
(* value.                                                                  *)
(***************************************************************************)
EXTENDS Integers, Sequences, FiniteSets, TLC

----------------------------------------------------------------------------
(* Bounds of the model *)

\* largest number a numeric property carries in the extraction inputs
MaxNum == 2
\* longest rollup array in the extraction inputs
MaxArr == 2

----------------------------------------------------------------------------
(* JSON values and the Python operations the code applies to them *)

JNull == [t |-> "null"]
JNum(n) == [t |-> "num", n |-> n]
JStr(s) == [t |-> "str", s |-> s]
JObj(o) == [t |-> "obj", o |-> o]
JArr(a) == [t |-> "arr", a |-> a]

\* the dict literal {}
EmptyDict == [k \in {} |-> JNull]
EmptyObj == JObj(EmptyDict)

IsNull(x) == x.t = "null"
IsObj(x) == x.t = "obj"
IsArr(x) == x.t = "arr"
IsNum(x) == x.t = "num"
\* x == 'literal'
IsStr(x, lit) == x.t = "str" /\ x.s = lit

\* d.get(key, default) on a dict d (a key present with value None yields None)
Get(d, key, default) == IF key \in DOMAIN d.o THEN d.o[key] ELSE default

\* outcome of a call: a returned value, or an exception raised out of it
Ok(v) == [ok |-> TRUE, val |-> v]
Raise == [ok |-> FALSE, val |-> 0]

----------------------------------------------------------------------------
(* extrair_valor *)

\* the loop body without the elif of lines 94-99: nested rollups are not
\* followed
ItemValorSemRollup(item) ==
    IF IsStr(Get(item, "type", JNull), "number") /\ ~IsNull(Get(item, "number", JNull))
    THEN Get(item, "number", JNull).n
    ELSE 0

\* the loop body of lines 88-99 for one item: what it adds to total
ItemValor(item) ==
    IF IsStr(Get(item, "type", JNull), "number")
    THEN LET valor == Get(item, "number", JNull)
         IN  IF ~IsNull(valor) THEN valor.n ELSE 0
    ELSE IF IsStr(Get(item, "type", JNull), "rollup")
    THEN LET inner_rollup == Get(item, "rollup", EmptyObj)
         IN  IF IsStr(Get(inner_rollup, "type", JNull), "number")
             THEN LET valor == Get(inner_rollup, "number", JNull)
                  IN  IF ~IsNull(valor) THEN valor.n ELSE 0
             ELSE 0
    ELSE 0

\* the loop of lines 87-100 over the array, total starting at 0
RECURSIVE SomaArray(_)
SomaArray(array) ==
    IF array = <<>> THEN 0
    ELSE ItemValor(Head(array)) + SomaArray(Tail(array))

\* lines 75-107: the rollup stages and the fallback, campo being a dict
ValorRollup(campo) ==
    LET rollup == Get(campo, "rollup", EmptyObj)
    IN  IF ~IsObj(rollup) THEN Raise   \* rollup.get on None: AttributeError
        ELSE LET rollup_type == Get(rollup, "type", JStr(""))
             IN  IF IsStr(rollup_type, "number") /\ ~IsNull(Get(rollup, "number", JNull))
                 THEN Ok(Get(rollup, "number", JNull).n)
                 ELSE IF IsStr(rollup_type, "array")
                 THEN Ok(SomaArray(Get(rollup, "array", JArr(<<>>)).a))
                 ELSE IF ~IsNull(Get(campo, "number", JNull))
                 THEN Ok(Get(campo, "number", JNull).n)
                 ELSE Ok(0)

\* the stages out of order: the rollup is looked at before the direct number
extrair_valor_rollup_primeiro(props, nome_campo) ==
    LET campo == Get(props, nome_campo, EmptyObj)
    IN  IF ~IsObj(campo) THEN Raise ELSE ValorRollup(campo)

extrair_valor(props, nome_campo) ==
    LET campo == Get(props, nome_campo, EmptyObj)
    IN  IF ~IsObj(campo) THEN Raise    \* campo.get on None: AttributeError
        ELSE IF IsStr(Get(campo, "type", JNull), "number")
                /\ ~IsNull(Get(campo, "number", JNull))
        THEN Ok(Get(campo, "number", JNull).n)
        ELSE ValorRollup(campo)

----------------------------------------------------------------------------
(* Inputs of extrair_valor: the shapes a property can take *)

\* a dict with an optional key: absent, or present with one of the values
Opt(key, vals) == {EmptyDict} \cup {key :> v : v \in vals}

Nums == 0..MaxNum
\* the value under a 'number' key: null or a number
NumVals == {JNull} \cup {JNum(n) : n \in Nums}

\* the rollup nested inside an array item
InnerRollups ==
    {JObj(a @@ b) : a \in Opt("type", {JStr("number")}),
                    b \in Opt("number", {JNull, JNum(1)})}
    \cup {JObj(("type" :> JStr("array"))
               @@ ("array" :> JArr(<<JObj(("type" :> JStr("number")) @@ ("number" :> JNum(1)))>>)))}

\* the items of a rollup array
Items ==
    {JObj(("type" :> JStr("number")) @@ b) : b \in Opt("number", NumVals)}
    \cup {JObj(("type" :> JStr("rollup")) @@ b) : b \in Opt("rollup", InnerRollups)}
    \cup {JObj(("type" :> JStr("status")) @@ ("number" :> JNum(1))),
          JObj("number" :> JNum(1))}

RECURSIVE SeqsUpTo(_, _)
SeqsUpTo(S, n) ==
    IF n = 0 THEN {<<>>}
    ELSE LET shorter == SeqsUpTo(S, n - 1)
         IN  shorter \cup {Append(s, x) : s \in {q \in shorter : Len(q) = n - 1}, x \in S}

Arrays == {JArr(s) : s \in SeqsUpTo(Items, MaxArr)}

\* the value under a 'rollup' key of a field
Rollups ==
    {JNull}
    \cup {JObj(("type" :> JStr("number")) @@ b) : b \in Opt("number", NumVals)}
    \cup {JObj(("type" :> JStr("array")) @@ b @@ c) :
              b \in Opt("array", Arrays), c \in Opt("number", {JNum(1)})}
    \cup {JObj(a @@ b @@ c) : a \in Opt("type", {JStr("date")}),
                              b \in Opt("number", {JNum(1)}),
                              c \in Opt("array", {JArr(<<JObj(("type" :> JStr("number")) @@ ("number" :> JNum(1)))>>)})}

\* the value of a field of the property container
Campos ==
    {JNull}
    \cup {JObj(a @@ b @@ c) : a \in Opt("type", {JStr("number"), JStr("rollup")}),
                              b \in Opt("number", NumVals),
                              c \in Opt("rollup", Rollups)}

\* the property containers: empty, lacking the field, or holding it
Containers ==
    {EmptyObj, JObj("Potencial" :> JObj(("type" :> JStr("number")) @@ ("number" :> JNum(1))))}
    \cup {JObj("Realizado" :> c) : c \in Campos}

----------------------------------------------------------------------------
(* extrair_status and calcular_metricas *)

META_FINANCEIRA == 20000000
\* the target year of line 186
ANO_META == 2030

\* outcome of a call that returns a label
OkS(s) == [ok |-> TRUE, val |-> s]
RaiseS == [ok |-> FALSE, val |-> ""]

\* lines 112-118: the label of the first element of the Status rollup array
extrair_status(props) ==
    LET campo == Get(props, "Status", EmptyObj)
    IN  IF ~IsObj(campo) THEN RaiseS
        ELSE LET status_rollup == Get(campo, "rollup", EmptyObj)
             IN  IF ~IsObj(status_rollup) THEN RaiseS
                 ELSE LET array == Get(status_rollup, "array", JArr(<<>>)).a
                      IN  IF array # <<>> /\ IsStr(Get(array[1], "type", JNull), "status")
                          THEN LET st == Get(array[1], "status", EmptyObj)
                               IN  IF ~IsObj(st) THEN RaiseS
                                   ELSE OkS(Get(st, "name", JStr("Sem status")).s)
                          ELSE OkS("Sem status")

\* lines 141-146: the debug listing extracts the three values of every record
\* and raises where one of the extractions raises
DebugRaises(meta_financeira) ==
    \E k \in 1..Len(meta_financeira) :
        LET props == Get(meta_financeira[k], "properties", EmptyObj)
        IN  \/ ~extrair_valor(props, "Realizado").ok
            \/ ~extrair_valor(props, "Valor").ok
            \/ ~extrair_valor(props, "Potencial").ok

\* the elif of line 167 written as a second if: a closed record with a
\* Potencial is counted in both totals
ClassificarSemElif(status, realizado, potencial) ==
    [fechado_valor |-> IF status = "Contratado" /\ realizado > 0 THEN realizado ELSE 0,
     fechados |-> IF status = "Contratado" /\ realizado > 0 THEN 1 ELSE 0,
     potencial_valor |-> IF potencial > 0 THEN potencial ELSE 0]

\* lines 163-168: what one goal record adds to fechado_valor, fechados and
\* potencial_valor
Classificar(status, realizado, potencial) ==
    IF status = "Contratado" /\ realizado > 0
    THEN [fechado_valor |-> realizado, fechados |-> 1, potencial_valor |-> 0]
    ELSE IF potencial > 0
    THEN [fechado_valor |-> 0, fechados |-> 0, potencial_valor |-> potencial]
    ELSE [fechado_valor |-> 0, fechados |-> 0, potencial_valor |-> 0]

\* lines 154-160: the extractions of one goal record raise
MetaRaises(m) ==
    LET props == Get(m, "properties", EmptyObj)
    IN  \/ ~extrair_status(props).ok
        \/ ~extrair_valor(props, "Realizado").ok
        \/ ~extrair_valor(props, "Valor").ok
        \/ ~extrair_valor(props, "Potencial").ok

\* lines 154-168 for one goal record whose extractions return
MetaDelta(m) ==
    LET props == Get(m, "properties", EmptyObj)
    IN  Classificar(extrair_status(props).val,
                    extrair_valor(props, "Realizado").val,
                    extrair_valor(props, "Potencial").val)

\* props.get(campo, {}).get(chave, {}).get('name', padrao) of lines 173-174
NomeDe(props, campo, chave, padrao) ==
    LET c == Get(props, campo, EmptyObj)
    IN  IF ~IsObj(c) THEN RaiseS
        ELSE LET v == Get(c, chave, EmptyObj)
             IN  IF ~IsObj(v) THEN RaiseS
                 ELSE OkS(Get(v, "name", JStr(padrao)).s)

\* line 175: props.get('Valor', {}).get('number', 0), a number or None
ValorDoProjeto(props) ==
    LET c == Get(props, "Valor", EmptyObj)
    IN  IF ~IsObj(c) THEN [ok |-> FALSE, val |-> JNull]
        ELSE [ok |-> TRUE, val |-> Get(c, "number", JNum(0))]

\* d[k] = 1 in place of d.get(k, 0) + 1: a label seen twice still counts 1
ContarSemSomar(d, k) == (k :> 1) @@ d

\* lines 177-178: d[k] = d.get(k, 0) + 1
Contar(d, k) ==
    IF k \in DOMAIN d THEN [d EXCEPT ![k] = @ + 1] ELSE d @@ (k :> 1)

\* lines 172-182 for one deal raise: a lookup on None, or None added to
\* valor_total
ProjetoRaises(p) ==
    LET props == Get(p, "properties", EmptyObj)
    IN  \/ ~NomeDe(props, "Status", "status", "Sem status").ok
        \/ ~NomeDe(props, "Cidade", "select", "Não informada").ok
        \/ ~ValorDoProjeto(props).ok
        \/ /\ NomeDe(props, "Status", "status", "Sem status").val # "Contratado"
           /\ ~IsNum(ValorDoProjeto(props).val)

\* lines 181-182: what one deal adds to valor_total
ValorAberto(status, valor) == IF status # "Contratado" THEN valor.n ELSE 0

\* the divisor without the max(.., 1) of line 198
DivisorSemPiso(ano_atual) == ANO_META - ano_atual

\* line 186 and the divisor of line 198
Divisor(ano_atual) ==
    LET anos_restantes == ANO_META - ano_atual
    IN  IF anos_restantes > 1 THEN anos_restantes ELSE 1

\* the float quotient a / b of line 198, kept exact as a fraction
Quociente(a, b) == [num |-> a, den |-> b]

\* lines 188-199
Metricas(n, status, cidade, aberto, nfechados, fechado, potencial, ano) ==
    [total |-> n,
     por_status |-> status,
     por_cidade |-> cidade,
     valor_total |-> aberto,
     fechados |-> nfechados,
     fechado_valor |-> fechado,
     potencial_valor |-> potencial,
     restante |-> META_FINANCEIRA - fechado,
     anos_restantes |-> ANO_META - ano,
     necessario_por_ano |-> Quociente(META_FINANCEIRA - fechado, Divisor(ano))]

----------------------------------------------------------------------------
(* Inputs of calcular_metricas *)

\* records of both collections in one call
MaxRecords == 2

Registro(props) == JObj("properties" :> JObj(props))
NumberProp(n) == JObj(("type" :> JStr("number")) @@ ("number" :> JNum(n)))
StatusRollup(nome) ==
    JObj(("type" :> JStr("rollup"))
         @@ ("rollup" :> JObj(("type" :> JStr("array"))
                 @@ ("array" :> JArr(<<JObj(("type" :> JStr("status"))
                                           @@ ("status" :> JObj("name" :> JStr(nome))))>>)))))

\* the Status of a goal record: a rollup naming a status, or an empty rollup
MetaStatus ==
    {"Status" :> StatusRollup("Contratado"), "Status" :> StatusRollup("Entrada"),
     "Status" :> JObj(("type" :> JStr("rollup"))
                      @@ ("rollup" :> JObj(("type" :> JStr("array")) @@ ("array" :> JArr(<<>>)))))}
\* its Realizado: absent, a large number, or a rollup of a negative number
MetaRealizado ==
    Opt("Realizado", {NumberProp(5000000),
                      JObj(("type" :> JStr("rollup"))
                           @@ ("rollup" :> JObj(("type" :> JStr("number")) @@ ("number" :> JNum(-1)))))})
\* its Potencial: absent or a number
MetaPotencial == Opt("Potencial", {NumberProp(2)})

\* the goal records: every combination, one whose Status rollup is null and
\* one whose Realizado is null
MetaRecords ==
    {Registro(a @@ b @@ c) : a \in MetaStatus, b \in MetaRealizado, c \in MetaPotencial}
    \cup {Registro(("Status" :> JObj("rollup" :> JNull)) @@ ("Potencial" :> NumberProp(2))),
          Registro(("Status" :> StatusRollup("Contratado")) @@ ("Realizado" :> JNull))}

ProjetoStatus(nome) == "Status" :> JObj(("type" :> JStr("status")) @@ ("status" :> JObj("name" :> JStr(nome))))
ProjetoCidade(nome) == "Cidade" :> JObj(("type" :> JStr("select")) @@ ("select" :> JObj("name" :> JStr(nome))))

\* the deals: status Contratado, Entrada or missing with a Valor that is null or
\* a number; one without Valor; one without status and city; one whose city
\* select is null
ProjetoRecords ==
    {Registro(a @@ ("Valor" :> b) @@ ProjetoCidade("Resende")) :
        a \in {EmptyDict, ProjetoStatus("Contratado"), ProjetoStatus("Entrada")},
        b \in {JObj(("type" :> JStr("number")) @@ ("number" :> JNull)), NumberProp(50)}}
    \cup {Registro(ProjetoStatus("Contratado") @@ ("Valor" :> NumberProp(100)) @@ ProjetoCidade("Resende")),
          Registro(ProjetoStatus("Entrada") @@ ProjetoCidade("Resende")),
          Registro("Valor" :> NumberProp(50)),
          Registro(ProjetoStatus("Entrada") @@ ("Valor" :> NumberProp(50))
                   @@ ("Cidade" :> JObj(("type" :> JStr("select")) @@ ("select" :> JNull))))}

\* the calls: both lists together hold at most MaxRecords records
Chamadas ==
    UNION {{ms \in SeqsUpTo(MetaRecords, a) : Len(ms) = a}
               \X SeqsUpTo(ProjetoRecords, MaxRecords - a) : a \in 0..MaxRecords}

\* the years datetime.now().year is drawn from
Anos == {2025, 2030, 2031}
----------------------------------------------------------------------------
(* The table of main(), lines 285-304 *)

\* projetos[:15] of line 287
LIMITE_TABELA == 15
\* nome[:30] of line 295
LIMITE_NOME == 30

\* a text whose characters matter: a sequence of one-character strings
JTxt(c) == [t |-> "txt", c |-> c]
SEM_NOME == <<"S", "e", "m", " ", "n", "o", "m", "e">>
RETICENCIAS == <<".", ".", ".">>

OkT(c) == [ok |-> TRUE, val |-> c]
RaiseT == [ok |-> FALSE, val |-> <<>>]

\* line 289: props.get('Negocio', {}).get('title', [{}])[0].get('plain_text', 'Sem nome')
NomeDoProjeto(props) ==
    LET negocio == Get(props, "Negocio", EmptyObj)
    IN  IF ~IsObj(negocio) THEN RaiseT
        ELSE LET title == Get(negocio, "title", JArr(<<EmptyObj>>))
             IN  IF ~IsArr(title) THEN RaiseT           \* None[0]: TypeError
                 ELSE IF title.a = <<>> THEN RaiseT     \* [][0]: IndexError
                 ELSE IF ~IsObj(title.a[1]) THEN RaiseT
                 ELSE OkT(Get(title.a[1], "plain_text", JTxt(SEM_NOME)).c)

\* line 295: nome[:30] + '...' if len(nome) > 30 else nome
Truncar(nome) ==
    IF Len(nome) > LIMITE_NOME THEN SubSeq(nome, 1, LIMITE_NOME) \o RETICENCIAS ELSE nome

\* line 287: projetos[:15]
Primeiros(projetos) ==
    SubSeq(projetos, 1, IF Len(projetos) < LIMITE_TABELA THEN Len(projetos) ELSE LIMITE_TABELA)

\* lines 288-291 raise for one deal
LinhaRaises(p) ==
    LET props == Get(p, "properties", EmptyObj)
    IN  \/ ~NomeDoProjeto(props).ok
        \/ ~NomeDe(props, "Status", "status", "Sem status").ok
        \/ ~NomeDe(props, "Cidade", "select", "Não informada").ok

\* lines 288-298 for one deal: the rows it appends to projetos_lista
Linhas(p) ==
    LET props == Get(p, "properties", EmptyObj)
        nome == NomeDoProjeto(props).val
    IN  IF nome # SEM_NOME
        THEN <<[Nome |-> Truncar(nome),
                Status |-> NomeDe(props, "Status", "status", "Sem status").val,
                Cidade |-> NomeDe(props, "Cidade", "select", "Não informada").val]>>
        ELSE <<>>

\* lines 286-298: the loop over the slice, for deals that do not raise
RECURSIVE ProjetosLista(_)
ProjetosLista(ps) ==
    IF ps = <<>> THEN <<>> ELSE Linhas(Head(ps)) \o ProjetosLista(Tail(ps))

----------------------------------------------------------------------------
(* Inputs of the table *)

\* longest deal list given to the table
MaxProjetos == 17

Alfabeto == <<"a", "b", "c", "d", "e", "f", "g", "h", "i", "j", "k", "l", "m",
              "n", "o", "p", "q", "r", "s", "t", "u", "v", "w", "x", "y", "z">>
\* a name of the given length that starts with the letter of the deal's rank
UmNome(rank, len) ==
    [k \in 1..len |-> IF k = 1 THEN Alfabeto[((rank - 1) % 26) + 1] ELSE Alfabeto[((k - 1) % 26) + 1]]

Negocio(title) == "Negocio" :> JObj(("type" :> JStr("title")) @@ ("title" :> title))
Titulo(nome) == JArr(<<JObj(("type" :> JStr("text")) @@ ("plain_text" :> JTxt(nome)))>>)

Feitios == {"curto", "trinta", "trinta_e_um", "longo", "sem_negocio", "sem_title",
            "sem_plain_text", "sentinela", "title_vazio"}

\* the deal of a given rank and shape
ProjetoDaTabela(rank, feitio) ==
    Registro(ProjetoStatus("Entrada") @@
        (CASE feitio = "curto" -> Negocio(Titulo(UmNome(rank, 5)))
           [] feitio = "trinta" -> Negocio(Titulo(UmNome(rank, 30)))
           [] feitio = "trinta_e_um" -> Negocio(Titulo(UmNome(rank, 31)))
           [] feitio = "longo" -> Negocio(Titulo(UmNome(rank, 40)))
           [] feitio = "sem_negocio" -> EmptyDict
           [] feitio = "sem_title" -> "Negocio" :> JObj("type" :> JStr("title"))
           [] feitio = "sem_plain_text" -> Negocio(JArr(<<JObj("type" :> JStr("text"))>>))
           [] feitio = "sentinela" -> Negocio(Titulo(SEM_NOME))
           [] feitio = "title_vazio" -> Negocio(JArr(<<>>))))

\* the deal lists: short names everywhere but at one rank, of any shape, and
\* possibly at the first rank, which then has no name
ListasDaTabela ==
    {[k \in 1..n |-> IF k = a THEN ProjetoDaTabela(k, fa)
                     ELSE IF k = 1 /\ b THEN ProjetoDaTabela(k, "sem_negocio")
                     ELSE ProjetoDaTabela(k, "curto")] :
        n \in 0..MaxProjetos, a \in 0..MaxProjetos, b \in BOOLEAN, fa \in Feitios}
----------------------------------------------------------------------------
(* The fetch functions and the cache of st.cache_data, lines 40-61 and 121 *)

\* ttl=300 of the three decorators: seconds an entry stays live
TTL == 300

\* seconds that pass between two looks at the page, and how often they pass
Passo == 120
MaxPassos == 4

\* what the request of lines 43-48 and r.json() of line 49 can come to:
\*   "results"     a JSON object holding the results list
\*   "sem_results" a JSON object without it (an error response)
\*   "falha_rede"  requests.post raises (connection error, timeout)
\*   "nao_json"    r.json() raises (the body is not JSON)
Resposta(k, dados) == [k |-> k, dados |-> dados]

\* lines 43-49 (and 55-61) given the response: the list returned, or the
\* exception that leaves the function
Buscar(resposta) ==
    IF resposta.k \in {"falha_rede", "nao_json"} THEN [ok |-> FALSE, val |-> <<>>]
    ELSE IF resposta.k = "results" THEN [ok |-> TRUE, val |-> resposta.dados]
    ELSE [ok |-> TRUE, val |-> <<>>]

\* a cache of one function without arguments: no entry, or one entry with the
\* value returned and the time it was stored
SemEntrada == <<>>
Entrada(val, t) == <<[val |-> val, t |-> t]>>
\* the entry is there and younger than the ttl
Viva(cache, agora) == cache # SemEntrada /\ agora < cache[1].t + TTL

\* the cache of calcular_metricas, keyed by its arguments: the key is live
ChaveViva(cache, chave, agora) ==
    \E e \in cache : e.chave = chave /\ agora < e.t + TTL
\* storing a key drops the entries that have expired
Guardar(cache, chave, agora) ==
    {e \in cache : e.chave # chave /\ agora < e.t + TTL} \cup {[chave |-> chave, t |-> agora]}

\* lines 124-199 raise for the two lists
CalcularRaises(ps, ms) ==
    \/ DebugRaises(ms)
    \/ \E k \in 1..Len(ms) : MetaRaises(ms[k])
    \/ \E k \in 1..Len(ps) : ProjetoRaises(ps[k])

----------------------------------------------------------------------------
(* What the two collections can hold when they are fetched *)

ProjetoComValor(n) ==
    Registro(ProjetoStatus("Entrada") @@ ("Valor" :> NumberProp(n)) @@ ProjetoCidade("Resende"))
ProjetoValorNulo ==
    Registro(ProjetoStatus("Entrada") @@ ProjetoCidade("Resende")
             @@ ("Valor" :> JObj(("type" :> JStr("number")) @@ ("number" :> JNull))))
DadosProjetos == {<<ProjetoComValor(50)>>, <<ProjetoComValor(50), ProjetoComValor(100)>>,
                  <<ProjetoValorNulo>>}
DadosMeta ==
    {<<>>, <<Registro(("Status" :> StatusRollup("Contratado")) @@ ("Realizado" :> NumberProp(5000000)))>>}

Respostas(dados) ==
    {Resposta("results", d) : d \in dados}
    \cup {Resposta("sem_results", <<>>), Resposta("falha_rede", <<>>), Resposta("nao_json", <<>>)}
----------------------------------------------------------------------------
(* State *)

VARIABLES
    \* extrair_valor called on its own: its argument and what it returned
    v_props, v_ret,
    \* calcular_metricas: arguments, position, locals, outcome
    meta_financeira, projetos, pc, i,
    total, por_status, por_cidade, valor_total,
    fechado_valor, fechados, potencial_valor, ano_atual, metricas,
    \* the table of main(): the deal list, position, the rows built
    t_projetos, t_pc, projetos_lista,
    \* the page: the clock, the three caches, the position of main(), whether
    \* the run was started by "Atualizar Dados", the locals of main(), what is on
    \* the screen, the function an exception came out of
    agora, cache_projetos, cache_meta, cache_metricas, p_pc, botao,
    l_projetos, l_meta, tela, erro,
    \* of the current run: the collections requested, the response each request
    \* got, the collections that had a live entry when the run began, whether
    \* the run is the one st.rerun() started
    pedidos, respostas, vivas, recarga

varsValor == <<v_props, v_ret>>
varsMetricas == <<meta_financeira, projetos, pc, i, total, por_status, por_cidade,
                  valor_total, fechado_valor, fechados, potencial_valor, ano_atual,
                  metricas>>
varsTabela == <<t_projetos, t_pc, projetos_lista>>
varsPagina == <<agora, cache_projetos, cache_meta, cache_metricas, p_pc, botao,
                l_projetos, l_meta, tela, erro, pedidos, respostas, vivas, recarga>>
vars == <<varsValor, varsMetricas, varsTabela, varsPagina>>

NoRet == [ok |-> FALSE, val |-> -1]
EmptyCount == [k \in {} |-> 0]
NoMetricas == Metricas(0, EmptyCount, EmptyCount, 0, 0, 0, 0, ANO_META)

IdleValor == v_props = EmptyObj /\ v_ret = NoRet
IdleMetricas ==
    /\ meta_financeira = <<>> /\ projetos = <<>> /\ pc = "idle" /\ i = 0
    /\ total = 0 /\ por_status = EmptyCount /\ por_cidade = EmptyCount
    /\ valor_total = 0 /\ fechado_valor = 0 /\ fechados = 0 /\ potencial_valor = 0
    /\ ano_atual = 0 /\ metricas = NoMetricas

IdleTabela == t_projetos = <<>> /\ t_pc = "idle" /\ projetos_lista = <<>>

SemRespostas == [c \in {"projetos", "meta"} |-> ""]
TelaVazia == [estado |-> "nada", projetos |-> <<>>, meta |-> <<>>]
IdlePagina ==
    /\ agora = 0 /\ cache_projetos = SemEntrada /\ cache_meta = SemEntrada
    /\ cache_metricas = {} /\ p_pc = "idle" /\ botao = FALSE
    /\ l_projetos = <<>> /\ l_meta = <<>> /\ tela = TelaVazia /\ erro = ""
    /\ pedidos = {} /\ respostas = SemRespostas /\ vivas = {} /\ recarga = FALSE

----------------------------------------------------------------------------
(* extrair_valor called on a property container *)

InitValor == v_props \in Containers /\ v_ret = NoRet /\ IdleMetricas /\ IdleTabela /\ IdlePagina

CallExtrairValor ==
    /\ v_ret = NoRet
    /\ v_ret' = extrair_valor(v_props, "Realizado")
    /\ UNCHANGED <<v_props, varsMetricas, varsTabela, varsPagina>>

NextValor == CallExtrairValor

SpecValor == InitValor /\ [][NextValor]_vars

----------------------------------------------------------------------------
(* calcular_metricas called on the two record lists *)

InitMetricas ==
    /\ IdleValor /\ IdleTabela /\ IdlePagina
    /\ \E c \in Chamadas : meta_financeira = c[1] /\ projetos = c[2]
    /\ pc = "start" /\ i = 0
    /\ total = 0 /\ por_status = EmptyCount /\ por_cidade = EmptyCount
    /\ valor_total = 0 /\ fechado_valor = 0 /\ fechados = 0 /\ potencial_valor = 0
    /\ ano_atual = 0 /\ metricas = NoMetricas

\* lines 124-151: the locals are set and the debug expander lists the records
Entrar ==
    /\ pc = "start"
    /\ total' = Len(projetos)
    /\ por_status' = EmptyCount /\ por_cidade' = EmptyCount
    /\ valor_total' = 0 /\ fechado_valor' = 0 /\ fechados' = 0 /\ potencial_valor' = 0
    /\ IF DebugRaises(meta_financeira)
       THEN pc' = "raised" /\ i' = i
       ELSE pc' = "metas" /\ i' = 1
    /\ UNCHANGED <<meta_financeira, projetos, ano_atual, metricas, varsValor, varsTabela, varsPagina>>

\* lines 153-168: one goal record
MetaStep ==
    /\ pc = "metas" /\ i <= Len(meta_financeira)
    /\ IF MetaRaises(meta_financeira[i])
       THEN /\ pc' = "raised"
            /\ UNCHANGED <<i, fechado_valor, fechados, potencial_valor>>
       ELSE LET d == MetaDelta(meta_financeira[i])
            IN  /\ fechado_valor' = fechado_valor + d.fechado_valor
                /\ fechados' = fechados + d.fechados
                /\ potencial_valor' = potencial_valor + d.potencial_valor
                /\ i' = i + 1
                /\ pc' = pc
    /\ UNCHANGED <<meta_financeira, projetos, total, por_status, por_cidade,
                   valor_total, ano_atual, metricas, varsValor, varsTabela, varsPagina>>

\* line 153 with no record left: on to the loop of line 171
MetaFim ==
    /\ pc = "metas" /\ i > Len(meta_financeira)
    /\ pc' = "projetos" /\ i' = 1
    /\ UNCHANGED <<meta_financeira, projetos, total, por_status, por_cidade,
                   valor_total, fechado_valor, fechados, potencial_valor, ano_atual,
                   metricas, varsValor, varsTabela, varsPagina>>

\* lines 171-182: one deal
ProjetoStep ==
    /\ pc = "projetos" /\ i <= Len(projetos)
    /\ IF ProjetoRaises(projetos[i])
       THEN /\ pc' = "raised"
            /\ UNCHANGED <<i, por_status, por_cidade, valor_total>>
       ELSE LET props == Get(projetos[i], "properties", EmptyObj)
                status == NomeDe(props, "Status", "status", "Sem status").val
                cidade == NomeDe(props, "Cidade", "select", "Não informada").val
                valor == ValorDoProjeto(props).val
            IN  /\ por_status' = Contar(por_status, status)
                /\ por_cidade' = Contar(por_cidade, cidade)
                /\ valor_total' = valor_total + ValorAberto(status, valor)
                /\ i' = i + 1
                /\ pc' = pc
    /\ UNCHANGED <<meta_financeira, projetos, total, fechado_valor, fechados,
                   potencial_valor, ano_atual, metricas, varsValor, varsTabela, varsPagina>>

\* lines 184-199: the year is read and the metrics are returned
Retornar ==
    /\ pc = "projetos" /\ i > Len(projetos)
    /\ \E ano \in Anos :
         /\ ano_atual' = ano
         /\ metricas' = Metricas(total, por_status, por_cidade, valor_total, fechados,
                                 fechado_valor, potencial_valor, ano)
    /\ pc' = "done"
    /\ UNCHANGED <<meta_financeira, projetos, i, total, por_status, por_cidade,
                   valor_total, fechado_valor, fechados, potencial_valor, varsValor, varsTabela, varsPagina>>

NextMetricas == Entrar \/ MetaStep \/ MetaFim \/ ProjetoStep \/ Retornar

SpecMetricas == InitMetricas /\ [][NextMetricas]_vars

----------------------------------------------------------------------------
(* The table of main() built from a deal list *)

InitTabela ==
    /\ IdleValor /\ IdleMetricas /\ IdlePagina
    /\ t_projetos \in ListasDaTabela /\ t_pc = "start" /\ projetos_lista = <<>>

\* lines 285-304: the rows of the first deals, or the exception of a deal
MontarTabela ==
    /\ t_pc = "start"
    /\ IF \E k \in 1..Len(Primeiros(t_projetos)) : LinhaRaises(t_projetos[k])
       THEN t_pc' = "raised" /\ projetos_lista' = projetos_lista
       ELSE t_pc' = "done" /\ projetos_lista' = ProjetosLista(Primeiros(t_projetos))
    /\ UNCHANGED <<t_projetos, varsValor, varsMetricas, varsPagina>>

NextTabela == MontarTabela

SpecTabela == InitTabela /\ [][NextTabela]_vars

----------------------------------------------------------------------------
(* The page: runs of main(), the refresh button, the passage of time *)

InitPagina ==
    /\ IdleValor /\ IdleMetricas /\ IdleTabela
    /\ agora = 0 /\ cache_projetos = SemEntrada /\ cache_meta = SemEntrada
    /\ cache_metricas = {} /\ p_pc = "ocioso" /\ botao = FALSE
    /\ l_projetos = <<>> /\ l_meta = <<>> /\ tela = TelaVazia /\ erro = ""
    /\ pedidos = {} /\ respostas = SemRespostas /\ vivas = {} /\ recarga = FALSE

Outros == <<varsValor, varsMetricas, varsTabela>>

\* the collections whose fetch function has a live entry
ColecoesVivas ==
    {c \in {"projetos", "meta"} :
        Viva(IF c = "projetos" THEN cache_projetos ELSE cache_meta, agora)}

\* a run of the script begins at line 202
ComecarRun(pressionado, rerun) ==
    /\ p_pc' = "l215" /\ botao' = pressionado /\ recarga' = rerun
    /\ l_projetos' = <<>> /\ l_meta' = <<>> /\ erro' = ""
    /\ pedidos' = {} /\ respostas' = SemRespostas

\* an exception leaves main(): the run ends with the exception on the screen
Abortar(funcao) ==
    /\ p_pc' = "ocioso" /\ erro' = funcao
    /\ tela' = [estado |-> "excecao", projetos |-> <<>>, meta |-> <<>>]

\* the page is opened, or a widget other than "Atualizar Dados" is used
\* (lines 314-319, 327-328): the script runs
CarregarPagina ==
    /\ p_pc = "ocioso"
    /\ ComecarRun(FALSE, FALSE)
    /\ vivas' = ColecoesVivas
    /\ UNCHANGED <<agora, cache_projetos, cache_meta, cache_metricas, tela, Outros>>

\* "Atualizar Dados" is pressed: the script runs with the button of line 322 set
PressionarAtualizar ==
    /\ p_pc = "ocioso"
    /\ ComecarRun(TRUE, FALSE)
    /\ vivas' = ColecoesVivas
    /\ UNCHANGED <<agora, cache_projetos, cache_meta, cache_metricas, tela, Outros>>

\* line 215: buscar_projetos() behind its cache
ChamarBuscarProjetos ==
    /\ p_pc = "l215"
    /\ IF Viva(cache_projetos, agora)
       THEN /\ l_projetos' = cache_projetos[1].val /\ p_pc' = "l216"
            /\ UNCHANGED <<cache_projetos, pedidos, respostas, erro, tela>>
       ELSE \E r \in Respostas(DadosProjetos) :
              /\ pedidos' = pedidos \cup {"projetos"}
              /\ respostas' = [respostas EXCEPT !["projetos"] = r.k]
              /\ IF Buscar(r).ok
                 THEN /\ l_projetos' = Buscar(r).val
                      /\ cache_projetos' = Entrada(Buscar(r).val, agora)
                      /\ p_pc' = "l216"
                      /\ UNCHANGED <<erro, tela>>
                 ELSE /\ Abortar("buscar_projetos")
                      /\ UNCHANGED <<l_projetos, cache_projetos>>
    /\ UNCHANGED <<agora, cache_meta, cache_metricas, botao, l_meta, vivas, recarga, Outros>>

\* line 216: buscar_meta_financeira() behind its cache
ChamarBuscarMetaFinanceira ==
    /\ p_pc = "l216"
    /\ IF Viva(cache_meta, agora)
       THEN /\ l_meta' = cache_meta[1].val /\ p_pc' = "l217"
            /\ UNCHANGED <<cache_meta, pedidos, respostas, erro, tela>>
       ELSE \E r \in Respostas(DadosMeta) :
              /\ pedidos' = pedidos \cup {"meta"}
              /\ respostas' = [respostas EXCEPT !["meta"] = r.k]
              /\ IF Buscar(r).ok
                 THEN /\ l_meta' = Buscar(r).val
                      /\ cache_meta' = Entrada(Buscar(r).val, agora)
                      /\ p_pc' = "l217"
                      /\ UNCHANGED <<erro, tela>>
                 ELSE /\ Abortar("buscar_meta_financeira")
                      /\ UNCHANGED <<l_meta, cache_meta>>
    /\ UNCHANGED <<agora, cache_projetos, cache_metricas, botao, l_projetos, vivas, recarga, Outros>>

\* line 217: calcular_metricas(projetos, meta_financeira) behind its cache
ChamarCalcularMetricas ==
    /\ p_pc = "l217"
    /\ IF ChaveViva(cache_metricas, <<l_projetos, l_meta>>, agora)
       THEN p_pc' = "l219" /\ UNCHANGED <<cache_metricas, erro, tela>>
       ELSE IF CalcularRaises(l_projetos, l_meta)
       THEN Abortar("calcular_metricas") /\ UNCHANGED cache_metricas
       ELSE /\ cache_metricas' = Guardar(cache_metricas, <<l_projetos, l_meta>>, agora)
            /\ p_pc' = "l219"
            /\ UNCHANGED <<erro, tela>>
    /\ UNCHANGED <<agora, cache_projetos, cache_meta, botao, l_projetos, l_meta,
                   pedidos, respostas, vivas, recarga, Outros>>

\* lines 219-340: the page is rendered; with the button of line 322 set the
\* caches are cleared and st.rerun() starts the script again
Renderizar ==
    /\ p_pc = "l219"
    /\ tela' = [estado |-> "metricas", projetos |-> l_projetos, meta |-> l_meta]
    /\ IF botao
       THEN /\ cache_projetos' = SemEntrada /\ cache_meta' = SemEntrada
            /\ cache_metricas' = {}
            /\ ComecarRun(FALSE, TRUE)
            /\ vivas' = {}
       ELSE /\ p_pc' = "ocioso"
            /\ UNCHANGED <<cache_projetos, cache_meta, cache_metricas, botao, l_projetos,
                           l_meta, erro, pedidos, respostas, vivas, recarga>>
    /\ UNCHANGED <<agora, Outros>>

\* time passes between two runs
PassarTempo ==
    /\ p_pc = "ocioso" /\ agora < Passo * MaxPassos
    /\ agora' = agora + Passo
    /\ UNCHANGED <<cache_projetos, cache_meta, cache_metricas, p_pc, botao, l_projetos,
                   l_meta, tela, erro, pedidos, respostas, vivas, recarga, Outros>>

NextPagina ==
    \/ CarregarPagina \/ PressionarAtualizar \/ ChamarBuscarProjetos
    \/ ChamarBuscarMetaFinanceira \/ ChamarCalcularMetricas \/ Renderizar
    \/ PassarTempo

SpecPagina == InitPagina /\ [][NextPagina]_vars
----------------------------------------------------------------------------
(* Properties of extrair_valor, checked under SpecValor *)

Chamado == v_ret # NoRet
TemCampo == "Realizado" \in DOMAIN v_props.o
Campo == v_props.o["Realizado"]

TipoDe(x) == IF "type" \in DOMAIN x.o THEN x.o["type"].s ELSE ""
\* the non-null number an object carries under 'number', 0 when it has none
NumeroDe(x) ==
    IF "number" \in DOMAIN x.o /\ x.o["number"].t = "num" THEN x.o["number"].n ELSE 0
TemNumero(x) == "number" \in DOMAIN x.o /\ x.o["number"].t = "num"
TemRollup(x) == "rollup" \in DOMAIN x.o /\ x.o["rollup"].t = "obj"

\* what one element counts for: its number when it is of type number, the
\* number of its rollup when it is a rollup of type number, otherwise nothing
Contribuicao(e) ==
    CASE TipoDe(e) = "number" -> NumeroDe(e)
      [] TipoDe(e) = "rollup" /\ TemRollup(e) /\ TipoDe(e.o["rollup"]) = "number"
              -> NumeroDe(e.o["rollup"])
      [] OTHER -> 0

RECURSIVE SomaContribuicoes(_, _)
SomaContribuicoes(arr, k) ==
    IF k = 0 THEN 0 ELSE Contribuicao(arr[k]) + SomaContribuicoes(arr, k - 1)

\* the field's rollup is of type array
RollupArray ==
    /\ TemCampo /\ IsObj(Campo) /\ TemRollup(Campo)
    /\ TipoDe(Campo.o["rollup"]) = "array"
ElementosDoRollup ==
    IF "array" \in DOMAIN Campo.o["rollup"].o THEN Campo.o["rollup"].o["array"].a ELSE <<>>
\* the field carries a direct number: it is of type number, its number not null
NumeroDireto == TemCampo /\ IsObj(Campo) /\ TipoDe(Campo) = "number" /\ TemNumero(Campo)

C5_NumeroDiretoTemPrecedencia ==
    /\ (Chamado /\ NumeroDireto) => v_ret = Ok(NumeroDe(Campo))
    /\ (Chamado /\ TemCampo /\ IsObj(Campo) /\ ~NumeroDireto /\ TemRollup(Campo)
          /\ TipoDe(Campo.o["rollup"]) = "number" /\ TemNumero(Campo.o["rollup"]))
         => v_ret = Ok(NumeroDe(Campo.o["rollup"]))
    /\ (Chamado /\ TemCampo /\ IsObj(Campo) /\ ~NumeroDireto /\ TemRollup(Campo)
          /\ ~(TipoDe(Campo.o["rollup"]) = "number" /\ TemNumero(Campo.o["rollup"]))
          /\ TipoDe(Campo.o["rollup"]) # "array")
         => v_ret = Ok(NumeroDe(Campo))

\* a direct number 2 was returned although the field also holds a rollup array
\* summing to 1
C5_Witness ==
    /\ Chamado /\ NumeroDireto /\ NumeroDe(Campo) = 2
    /\ RollupArray
    /\ SomaContribuicoes(ElementosDoRollup, Len(ElementosDoRollup)) = 1
    /\ v_ret = Ok(2)

\* a JSON value holds no number anywhere
RECURSIVE SemNumero(_)
SemNumero(x) ==
    CASE x.t = "num" -> FALSE
      [] x.t = "obj" -> \A k \in DOMAIN x.o : SemNumero(x.o[k])
      [] x.t = "arr" -> \A j \in 1..Len(x.a) : SemNumero(x.a[j])
      [] OTHER -> TRUE

\* C6: extrair_valor returns 0 without raising when no numeric value is found:
\* an empty container, a container lacking the field, a field whose values are
\* all null, the field itself null.
C6_ZeroSemRaise ==
    (Chamado /\ (~TemCampo \/ SemNumero(Campo))) => v_ret = Ok(0)

\* the part of C6 that the code keeps: the same for a field that is a dict
\* whose rollup, when present, is a dict
C6_ZeroParaDicts ==
    (Chamado /\ (~TemCampo \/ (SemNumero(Campo) /\ IsObj(Campo)
                               /\ ("rollup" \in DOMAIN Campo.o => TemRollup(Campo)))))
        => v_ret = Ok(0)
----------------------------------------------------------------------------
(* Properties of calcular_metricas, checked under SpecMetricas *)

\* the goal record the loop of line 153 is at, and its extracted values
RegistroAtual == Get(meta_financeira[i], "properties", EmptyObj)
StatusAtual == extrair_status(RegistroAtual).val
RealizadoAtual == extrair_valor(RegistroAtual, "Realizado").val
PotencialAtual == extrair_valor(RegistroAtual, "Potencial").val
\* a step of the loop that handled the record without raising
RegistroTratado == pc = "metas" /\ i <= Len(meta_financeira) /\ i' = i + 1

\* C1: each goal record falls in at most one bucket. Status "Contratado" with
\* Realizado > 0 adds its Realizado to fechado_valor and 1 to fechados and
\* nothing to potencial_valor, whatever its Potencial; any other record with
\* Potencial > 0 adds its Potencial to potencial_valor and nothing else; every
\* remaining record adds nothing; and nothing but a record adds to the totals.
C1_UmBaldePorRegistro ==
    [][/\ (RegistroTratado /\ StatusAtual = "Contratado" /\ RealizadoAtual > 0)
            => /\ fechado_valor' = fechado_valor + RealizadoAtual
               /\ fechados' = fechados + 1
               /\ potencial_valor' = potencial_valor
       /\ (RegistroTratado /\ ~(StatusAtual = "Contratado" /\ RealizadoAtual > 0)
             /\ PotencialAtual > 0)
            => /\ potencial_valor' = potencial_valor + PotencialAtual
               /\ fechado_valor' = fechado_valor
               /\ fechados' = fechados
       /\ (RegistroTratado /\ ~(StatusAtual = "Contratado" /\ RealizadoAtual > 0)
             /\ ~(PotencialAtual > 0))
            => UNCHANGED <<fechado_valor, fechados, potencial_valor>>
       /\ (~RegistroTratado /\ pc # "start")
            => UNCHANGED <<fechado_valor, fechados, potencial_valor>>
       /\ pc' = "done"
            => /\ metricas'.fechado_valor = fechado_valor
               /\ metricas'.fechados = fechados
               /\ metricas'.potencial_valor = potencial_valor
      ]_vars

\* a single record, Contratado with Realizado 5,000,000 and Potencial 2, was
\* counted as closed and left the potential total at 0
C1_Witness ==
    /\ pc = "done" /\ Len(meta_financeira) = 1
    /\ extrair_status(Get(meta_financeira[1], "properties", EmptyObj)).val = "Contratado"
    /\ extrair_valor(Get(meta_financeira[1], "properties", EmptyObj), "Realizado").val = 5000000
    /\ extrair_valor(Get(meta_financeira[1], "properties", EmptyObj), "Potencial").val = 2
    /\ metricas.fechado_valor = 5000000 /\ metricas.fechados = 1
    /\ metricas.potencial_valor = 0

\* the status, city and Valor of a deal as its properties give them
TemChave(x, k) == IsObj(x) /\ k \in DOMAIN x.o
PropsDe(p) == p.o["properties"]
StatusDoProjeto(p) ==
    IF TemChave(PropsDe(p), "Status") /\ TemChave(PropsDe(p).o["Status"], "status")
    THEN PropsDe(p).o["Status"].o["status"].o["name"].s
    ELSE "Sem status"
CidadeDoProjeto(p) ==
    IF TemChave(PropsDe(p), "Cidade") /\ TemChave(PropsDe(p).o["Cidade"], "select")
           /\ IsObj(PropsDe(p).o["Cidade"].o["select"])
    THEN PropsDe(p).o["Cidade"].o["select"].o["name"].s
    ELSE "Não informada"
\* the Valor of a deal, 0 when it is missing or null
ValorOuZero(p) ==
    IF TemChave(PropsDe(p), "Valor") /\ TemChave(PropsDe(p).o["Valor"], "number")
           /\ IsNum(PropsDe(p).o["Valor"].o["number"])
    THEN PropsDe(p).o["Valor"].o["number"].n
    ELSE 0

RECURSIVE SomaAbertos(_, _)
SomaAbertos(ps, k) ==
    IF k = 0 THEN 0
    ELSE SomaAbertos(ps, k - 1)
         + (IF StatusDoProjeto(ps[k]) # "Contratado" THEN ValorOuZero(ps[k]) ELSE 0)

\* every deal has a status and a city that are given or missing (none is null)
ProjetosSemNulos ==
    \A k \in 1..Len(projetos) :
        /\ NomeDe(PropsDe(projetos[k]), "Status", "status", "Sem status").ok
        /\ NomeDe(PropsDe(projetos[k]), "Cidade", "select", "Não informada").ok
\* no goal record makes the call raise
MetasSemRaise ==
    /\ ~DebugRaises(meta_financeira)
    /\ \A k \in 1..Len(meta_financeira) : ~MetaRaises(meta_financeira[k])

\* C2: valor_total is the sum of the Valor of the deals whose status is not
\* "Contratado"; a deal with a missing status or a missing or null Valor is
\* handled, counted as open and contributing 0.
C2_ValorTotalDosAbertos ==
    (MetasSemRaise /\ ProjetosSemNulos)
        => /\ pc # "raised"
           /\ pc = "done" => metricas.valor_total = SomaAbertos(projetos, Len(projetos))

\* the part of C2 the code keeps: whenever the call returns
C2_ValorTotalQuandoRetorna ==
    pc = "done" => metricas.valor_total = SomaAbertos(projetos, Len(projetos))

\* C3: restante = 20,000,000 - fechado_valor and necessario_por_ano =
\* restante / max(2030 - current year, 1), the divisor never below 1; closed
\* 5,000,000 gives 3,000,000 in 2025 and 15,000,000 in 2031.
C3_NecessarioPorAno ==
    pc = "done" =>
        /\ metricas.restante = 20000000 - metricas.fechado_valor
        /\ metricas.necessario_por_ano.num = 20000000 - metricas.fechado_valor
        /\ metricas.necessario_por_ano.den >= 1
        /\ metricas.necessario_por_ano.den
              = (IF 2030 - ano_atual >= 1 THEN 2030 - ano_atual ELSE 1)
        /\ (metricas.fechado_valor = 5000000 /\ ano_atual = 2025)
              => metricas.necessario_por_ano.num = 3000000 * metricas.necessario_por_ano.den
        /\ (metricas.fechado_valor = 5000000 /\ ano_atual = 2031)
              => metricas.necessario_por_ano.num = 15000000 * metricas.necessario_por_ano.den

\* closed 5,000,000 and the year 2031: the divisor is 1
C3_Witness ==
    /\ pc = "done" /\ ano_atual = 2031 /\ metricas.fechado_valor = 5000000
    /\ metricas.necessario_por_ano = [num |-> 15000000, den |-> 1]

RECURSIVE SomaContagens(_, _)
SomaContagens(d, ks) ==
    IF ks = {} THEN 0
    ELSE LET k == CHOOSE x \in ks : TRUE IN d[k] + SomaContagens(d, ks \ {k})

\* C10: the histograms partition the deals: the counts of por_status and of
\* por_cidade each sum to total, total is the length of the deal list, every
\* count is at least 1, and a deal with a missing status or city is counted
\* under "Sem status" and "Não informada".
C10_HistogramasParticionam ==
    pc = "done" =>
        /\ metricas.total = Len(projetos)
        /\ SomaContagens(metricas.por_status, DOMAIN metricas.por_status) = metricas.total
        /\ SomaContagens(metricas.por_cidade, DOMAIN metricas.por_cidade) = metricas.total
        /\ \A k \in DOMAIN metricas.por_status :
              /\ metricas.por_status[k] >= 1
              /\ metricas.por_status[k]
                   = Cardinality({n \in 1..Len(projetos) : StatusDoProjeto(projetos[n]) = k})
        /\ \A k \in DOMAIN metricas.por_cidade :
              /\ metricas.por_cidade[k] >= 1
              /\ metricas.por_cidade[k]
                   = Cardinality({n \in 1..Len(projetos) : CidadeDoProjeto(projetos[n]) = k})
        /\ \A n \in 1..Len(projetos) :
              /\ StatusDoProjeto(projetos[n]) \in DOMAIN metricas.por_status
              /\ CidadeDoProjeto(projetos[n]) \in DOMAIN metricas.por_cidade

\* two deals, both without status and city, were counted under the two labels
C10_Witness ==
    /\ pc = "done" /\ Len(projetos) = 2
    /\ \A n \in 1..2 : ~TemChave(PropsDe(projetos[n]), "Status")
                       /\ ~TemChave(PropsDe(projetos[n]), "Cidade")
    /\ metricas.por_status = ("Sem status" :> 2)
    /\ metricas.por_cidade = ("Não informada" :> 2)
    /\ metricas.total = 2
----------------------------------------------------------------------------
(* Properties of the table, checked under SpecTabela *)

\* the name a deal resolves to: its first title text, or the sentinel
NomeResolvido(p) ==
    IF /\ TemChave(PropsDe(p), "Negocio") /\ TemChave(PropsDe(p).o["Negocio"], "title")
       /\ PropsDe(p).o["Negocio"].o["title"].a # <<>>
       /\ TemChave(PropsDe(p).o["Negocio"].o["title"].a[1], "plain_text")
    THEN PropsDe(p).o["Negocio"].o["title"].a[1].o["plain_text"].c
    ELSE SEM_NOME

\* the named deals of a list, in list order
RECURSIVE Nomeados(_)
Nomeados(ps) ==
    IF ps = <<>> THEN <<>>
    ELSE (IF NomeResolvido(Head(ps)) # SEM_NOME THEN <<Head(ps)>> ELSE <<>>)
         \o Nomeados(Tail(ps))

NomeMostrado(nome) ==
    IF Len(nome) > 30 THEN [k \in 1..33 |-> IF k <= 30 THEN nome[k] ELSE "."] ELSE nome

\* C9: the rows of the table are the first min(15, number of named deals)
\* named deals in list order; unnamed deals never appear and use up none of the
\* 15 rows; a name longer than 30 characters is shown as its first 30
\* characters followed by "...", a shorter one unchanged.
C9_PrimeirosQuinzeNomeados ==
    t_pc \in {"done", "raised"} =>
        /\ t_pc = "done"
        /\ LET nomeados == Nomeados(t_projetos)
               n == IF Len(nomeados) < 15 THEN Len(nomeados) ELSE 15
           IN  /\ Len(projetos_lista) = n
               /\ \A k \in 1..n :
                     projetos_lista[k].Nome = NomeMostrado(NomeResolvido(nomeados[k]))

\* what the code keeps of C9: when no deal among the first 15 raises, the rows
\* are the named deals among the first 15 deals, in order, names truncated
C9_NomeadosDosPrimeirosQuinze ==
    /\ t_pc = "done" =>
          LET nomeados == Nomeados(SubSeq(t_projetos, 1,
                              IF Len(t_projetos) < 15 THEN Len(t_projetos) ELSE 15))
          IN  /\ Len(projetos_lista) = Len(nomeados)
              /\ \A k \in 1..Len(nomeados) :
                    projetos_lista[k].Nome = NomeMostrado(NomeResolvido(nomeados[k]))
    /\ t_pc = "raised" =>
          \E k \in 1..Len(t_projetos) :
              k <= 15 /\ TemChave(PropsDe(t_projetos[k]), "Negocio")
                      /\ TemChave(PropsDe(t_projetos[k]).o["Negocio"], "title")
                      /\ PropsDe(t_projetos[k]).o["Negocio"].o["title"].a = <<>>
----------------------------------------------------------------------------
(* Properties of the page, checked under SpecPagina *)

\* a run of main() has ended and nothing runs
FimDeRun == p_pc = "ocioso" /\ tela.estado # "nada"
Falhas == {"sem_results", "falha_rede", "nao_json"}
ListaDe(c) == IF c = "projetos" THEN l_projetos ELSE l_meta
FuncaoDe(c) == IF c = "projetos" THEN "buscar_projetos" ELSE "buscar_meta_financeira"

\* C7: every failure of a fetch is swallowed at the fetch boundary: on a
\* network failure, a non-JSON response and a response lacking the results
\* field the fetch function returns an empty list instead of raising, and the
\* page load completes.
C7_FalhasEngolidas ==
    FimDeRun =>
        \A c \in {"projetos", "meta"} :
            respostas[c] \in Falhas =>
                /\ erro # FuncaoDe(c)
                /\ ListaDe(c) = <<>>
                /\ tela.estado = "metricas"

\* what the code keeps of C7: a response lacking the results field gives the
\* empty list; a network failure or a non-JSON response leaves the fetch
\* function as an exception and the run ends there
C7_SoSemResultsEngolida ==
    FimDeRun =>
        \A c \in {"projetos", "meta"} :
            /\ respostas[c] = "sem_results" => (erro # FuncaoDe(c) /\ ListaDe(c) = <<>>)
            /\ respostas[c] \in {"falha_rede", "nao_json"}
                  => (erro = FuncaoDe(c) /\ tela.estado = "excecao")

\* C8: a page load requests a collection if and only if the collection has no
\* live cache entry (never fetched, older than the ttl, or cleared); a load
\* with a live entry renders the cached data; and pressing "Atualizar Dados"
\* clears every entry and starts a reload that fetches both collections.
C8_PedidoSeSemEntradaViva ==
    FimDeRun =>
        /\ \A c \in {"projetos", "meta"} : (c \in pedidos) <=> (c \notin vivas)
        /\ ("projetos" \in vivas /\ tela.estado = "metricas")
              => tela.projetos = cache_projetos[1].val
        /\ ~botao
        /\ recarga => pedidos = {"projetos", "meta"}

\* what the code keeps of C8: a request is only made without a live entry, and
\* a run that no exception ends behaves as C8 states
C8_QuandoNadaLanca ==
    FimDeRun =>
        /\ \A c \in pedidos : c \notin vivas
        /\ erro = "" =>
              /\ \A c \in {"projetos", "meta"} : (c \in pedidos) <=> (c \notin vivas)
              /\ "projetos" \in vivas => tela.projetos = cache_projetos[1].val
              /\ ~botao
              /\ recarga => pedidos = {"projetos", "meta"}
====
